---- MODULE Spec2Model ----
(***************************************************************************)
(* The preview engine (src/core/manager/preview.rs) and the task facade    *)
(* with its progress pump (yazi-core/src/tasks/tasks.rs) as state          *)
(* machines.                                                               *)
(*                                                                         *)
(* Producers are tokio tasks.  A task is either suspended ("waiting": just *)
(* spawned, or parked at an .await), being polled by a worker thread       *)
(* ("polling"), finished ("done") or dropped by the runtime after an       *)
(* abort ("cancelled").  JoinHandle::abort only raises a flag: the runtime *)
(* looks at it when it next picks the task up, so a task that is in the    *)
(* middle of a poll runs on to its next suspension point or to its end.    *)
(***************************************************************************)
EXTENDS Integers, Sequences, FiniteSets, TLC

\* ------------------------------------------------------------------ bounds
\* go() calls in a run
MaxGo == 2

\* mutations of the running table in a run
MaxMut == 3

\* tallest terminal, in rows
MaxRows == 6

\* ------------------------------------------------------------- input sets
Paths == {"a", "b"}

DefaultPath == ""

Mimes ==
  { "inode/directory", "application/json", "text/plain", "image/png",
    "video/mp4", "application/zip", "application/x-random" }

\* MimeKind::new on the MIME strings used as inputs (unknown -> Others).
MimeKindNew(mime) ==
  CASE mime = "inode/directory"  -> "Dir"
    [] mime = "application/json" -> "JSON"
    [] mime = "text/plain"       -> "Text"
    [] mime = "image/png"        -> "Image"
    [] mime = "image/jpeg"       -> "Image"
    [] mime = "application/pdf"  -> "PDF"
    [] mime = "video/mp4"        -> "Video"
    [] mime = "application/zip"  -> "Archive"
    [] OTHER                     -> "Others"

\* ------------------------------------------------------------------ values
\* A file location: a path of Paths under `depth` applications of
\* Precache::cache.
Loc(path, depth) == [path |-> path, depth |-> depth]

\* Precache::cache(path)
Cache(loc) == [loc EXCEPT !.depth = @ + 1]

\* PreviewData; Text and Image carry the location their content was read from.
NoneData == [tag |-> "None", path |-> DefaultPath, depth |-> 0]

FolderData == [tag |-> "Folder", path |-> DefaultPath, depth |-> 0]

TextData(loc) == [tag |-> "Text", path |-> loc.path, depth |-> loc.depth]

ImageData(loc) == [tag |-> "Image", path |-> loc.path, depth |-> loc.depth]

\* Result<PreviewData>
Ok(val) == [ok |-> TRUE, val |-> val]

Err == [ok |-> FALSE, val |-> NoneData]

\* Mutant: the error is replaced by a placeholder instead of the default.
UnwrapOrFolder(result) == IF result.ok THEN result.val ELSE FolderData

\* Result::unwrap_or_default with PreviewData's #[default] None
UnwrapOrDefault(result) == IF result.ok THEN result.val ELSE NoneData

\* FilesOp::Read(path, items) / FilesOp::IOErr(path)
FilesOpRead(path) == [tag |-> "Read", path |-> path, depth |-> 0]

FilesOpIOErr(path) == [tag |-> "IOErr", path |-> path, depth |-> 0]

\* Mutant: the event carries the slot's cleared path, not the producer's.
PreviewEventNoPath(id, path, data) ==
  [type |-> "Preview", prod |-> id, path |-> DefaultPath, data |-> data]

\* emit!(Preview(path, data)) and emit!(Files(op)) as entries of the event bus
PreviewEvent(id, path, data) ==
  [type |-> "Preview", prod |-> id, path |-> path, data |-> data]

FilesEvent(id, op) ==
  [type |-> "Files", prod |-> id, path |-> op.path, data |-> op]

VARIABLES
  path,       \* Preview.path
  data,       \* Preview.data
  handle,     \* Preview.handle: 0 is None, i > 0 is the JoinHandle of producer i
  prods,      \* the producers spawned so far, in launch order
  events,     \* the event bus: every event emitted so far, in order
  seen,       \* how many events the consumer has taken off the bus
  target,     \* the consumer's current selection (the path of the last go)
  lastCall,   \* the most recent call on the engine: "new", "go" or "reset"
  prevCall,   \* the call before it
  resetRet,   \* what the most recent reset() returned
  tick,       \* flips at every reset() call
  running,    \* scheduler.running: the task records, in insertion order
  nextId,     \* the id the scheduler gives the next task
  nMut,       \* mutations of the running table so far
  pumpPc,     \* the progress pump: "sleep" (line 33) or "poll" (lines 35-39)
  last,       \* the pump's local `last`
  progress,   \* every Progress event emitted so far (Tasks::_update), in order
  muts,       \* mutations of the running table since the pump's last poll
  polled,     \* the mutations the pump's last poll had to look at
  page,       \* the last paginate() call: the terminal height and the result
  pageTick,   \* flips at every paginate() call
  fcall,      \* the last call on the facade (or File::from_meta): its name and inputs
  sched       \* the calls on the scheduler that call has made so far, in order

previewVars ==
  << path, data, handle, prods, events, seen, target,
     lastCall, prevCall, resetRet, tick >>

tasksVars ==
  << running, nextId, nMut, pumpPc, last, progress, muts, polled, page, pageTick >>

facadeVars == << fcall, sched >>

vars == << previewVars, tasksVars, facadeVars >>

\* ------------------------------------------------------------ the producer
\* The future spawned by go: the captured (path, mime), where it is parked
\* (pc names the .await it is at), how the runtime holds it (st), whether
\* abort() was requested while it was unfinished, the `path` local of
\* image(), the result it computed and what read_dir gave.
NewProducer(id, p, m) ==
  [ id |-> id, path |-> p, mime |-> m, pc |-> "start", st |-> "waiting",
    abort |-> FALSE, src |-> Loc(p, 0), res |-> "pending", listing |-> "none" ]

\* Parks the future at the .await named pc; `ready` says the awaited future
\* was Ready at once, so that the poll goes on without a suspension.
Await(p, pc, ready) ==
  [ p   |-> [p EXCEPT !.pc = pc, !.st = IF ready THEN "polling" ELSE "waiting"],
    out |-> <<>> ]

\* Mutant: the result is published by the matched arm and again at line 58.
CompleteTwice(p, pre, result) ==
  [ p   |-> [p EXCEPT !.pc = "end", !.st = "done",
                      !.res = IF result.ok THEN "ok" ELSE "err"],
    out |-> pre \o << PreviewEvent(p.id, p.path, UnwrapOrDefault(result)),
                      PreviewEvent(p.id, p.path, UnwrapOrDefault(result)) >> ]

\* Line 58: emit!(Preview(path, result.unwrap_or_default())), after the
\* events `pre` the matched arm emitted; the future then returns.
Complete(p, pre, result) ==
  [ p   |-> [p EXCEPT !.pc = "end", !.st = "done",
                      !.res = IF result.ok THEN "ok" ELSE "err"],
    out |-> pre \o <<PreviewEvent(p.id, p.path, UnwrapOrDefault(result))>> ]

\* Mutant: an unsupported MIME type returns from the future at once.
DispatchReturns(p, ready) ==
  LET kind == MimeKindNew(p.mime) IN
  CASE kind = "Dir"     -> Await(p, "read_dir", ready)
    [] kind = "JSON"    -> Await(p, "jq", ready)
    [] kind = "Text"    -> Await(p, "highlight", ready)
    [] kind = "Image"   -> Await(p, "img_meta", ready)
    [] kind = "Video"   -> Await(p, "vid_meta", ready)
    [] kind = "Archive" -> Await(p, "lsar", ready)
    [] OTHER            -> [ p   |-> [p EXCEPT !.pc = "end", !.st = "done", !.res = "err"],
                             out |-> <<>> ]

\* Lines 48-56: the dispatch on MimeKind::new(&mime), up to the first .await
\* of the selected producer.
Dispatch(p, ready) ==
  LET kind == MimeKindNew(p.mime) IN
  CASE kind = "Dir"     -> Await(p, "read_dir", ready)
    [] kind = "JSON"    -> Await(p, "jq", ready)
    [] kind = "Text"    -> Await(p, "highlight", ready)
    [] kind = "Image"   -> Await(p, "img_meta", ready)
    [] kind = "Video"   -> Await(p, "vid_meta", ready)
    [] kind = "Archive" -> Await(p, "lsar", ready)
    [] OTHER            -> Complete(p, <<>>, Err)

\* Mutant: a failed listing is returned with `?` like the other producers'.
FolderPropagates(p, ok) ==
  IF ok
    THEN [ p   |-> [p EXCEPT !.listing = "ok", !.pc = "folder_ret", !.st = "polling"],
           out |-> <<FilesEvent(p.id, FilesOpRead(p.path))>> ]
    ELSE Complete([p EXCEPT !.listing = "err"], <<>>, Err)

\* Preview::folder lines 73-76, after Files::read_dir(&path).await gave Ok
\* (ok) or Err: the Files event is emitted, the poll goes on.
Folder(p, ok) ==
  LET op == IF ok THEN FilesOpRead(p.path) ELSE FilesOpIOErr(p.path) IN
  [ p   |-> [p EXCEPT !.listing = IF ok THEN "ok" ELSE "err",
                      !.pc = "folder_ret", !.st = "polling"],
    out |-> <<FilesEvent(p.id, op)>> ]

\* Preview::folder line 78: Ok(PreviewData::Folder), back in go's future.
FolderRet(p) == Complete(p, <<>>, Ok(FolderData))

\* Preview::json / Preview::archive / Preview::highlight after their .await:
\* `?` returns the error, otherwise the text is mapped to PreviewData::Text.
TextOf(p, ok) ==
  IF ok THEN Complete(p, <<>>, Ok(TextData(p.src))) ELSE Complete(p, <<>>, Err)

\* Preview::image lines 82-85, after fs::metadata(&cache).await: is_ok (ok)
\* switches the decode source to the cached thumbnail.
ImageMeta(p, ok, ready) ==
  Await([p EXCEPT !.src = IF ok THEN Cache(p.src) ELSE p.src], "img_read", ready)

\* Preview::image line 94: fs::read(path).await?
ImageRead(p, ok, ready) ==
  IF ok THEN Await(p, "img_decode", ready) ELSE Complete(p, <<>>, Err)

\* Preview::image lines 95-103: the spawn_blocking decode, .await?
ImageDecode(p, ok) ==
  IF ok THEN Complete(p, <<>>, Ok(ImageData(p.src))) ELSE Complete(p, <<>>, Err)

\* Preview::video lines 107-108, after fs::metadata(&cache).await: is_err
\* (~ok) runs the thumbnailer, else image(&cache) starts.
VideoMeta(p, ok, ready) ==
  IF ok THEN Await([p EXCEPT !.src = Cache(p.src)], "img_meta", ready)
        ELSE Await(p, "ffmpeg", ready)

\* Preview::video line 109: external::ffmpegthumbnailer(path, &cache).await?
VideoThumb(p, ok, ready) ==
  IF ok THEN Await([p EXCEPT !.src = Cache(p.src)], "img_meta", ready)
        ELSE Complete(p, <<>>, Err)

\* One stretch of a poll: the .await at p.pc resolves with `ok` and the code
\* after it runs to the next .await or to the end of the future.
Resume(p, ok, ready) ==
  CASE p.pc = "start"      -> Dispatch(p, ready)
    [] p.pc = "read_dir"   -> Folder(p, ok)
    [] p.pc = "folder_ret" -> FolderRet(p)
    [] p.pc = "jq"         -> TextOf(p, ok)
    [] p.pc = "lsar"       -> TextOf(p, ok)
    [] p.pc = "highlight"  -> TextOf(p, ok)
    [] p.pc = "img_meta"   -> ImageMeta(p, ok, ready)
    [] p.pc = "img_read"   -> ImageRead(p, ok, ready)
    [] p.pc = "img_decode" -> ImageDecode(p, ok)
    [] p.pc = "vid_meta"   -> VideoMeta(p, ok, ready)
    [] p.pc = "ffmpeg"     -> VideoThumb(p, ok, ready)

\* JoinHandle::abort: a finished task is left alone, any other is marked.
Abort(p) ==
  IF p.st \in {"done", "cancelled"} THEN p ELSE [p EXCEPT !.abort = TRUE]

\* Mutant: the old handle is dropped without being aborted.
AbortForgotten(ps, h) == ps

\* Lines 42-44: if let Some(handle) = self.handle.take() { handle.abort() }
AbortTaken(ps, h) ==
  IF h = 0 THEN ps ELSE [ps EXCEPT ![h] = Abort(ps[h])]

\* Mutant: the new handle is recorded first, then the recorded one aborted.
SpawnThenAbort(ps, h, new) == AbortTaken(Append(ps, new), Len(ps) + 1)

\* Mutant: the abort also reaches the producer about to be spawned.
SpawnAbortsNew(ps, h, new) == Append(AbortTaken(ps, h), Abort(new))

\* Lines 42-47: the taken handle is aborted, then the new producer is spawned.
Spawn(ps, h, new) == Append(AbortTaken(ps, h), new)

\* Mutant: the early return is missing.
ResetChangedAlways(p) == TRUE

\* Lines 63-65: reset() reports a change unless the path is the default one.
ResetChanged(p) == p # DefaultPath

\* ---------------------------------------------------------------- the tasks
\* Geometry of the task pane (super::{TASKS_PADDING, TASKS_PERCENT}).
TASKS_PADDING == 2

TASKS_PERCENT == 80

\* u16::saturating_sub
SaturatingSub(a, b) == IF a < b THEN 0 ELSE a - b

\* Tasks::limit(), for a terminal of `rows` rows
Limit(rows) == SaturatingSub((rows * TASKS_PERCENT) \div 100, TASKS_PADDING)

\* Iterator::take(n)
Take(seq, n) == SubSeq(seq, 1, IF n < Len(seq) THEN n ELSE Len(seq))

\* A record of the running table: its id and its byte and item counts.
Task(id, bytes, items) ==
  [ id |-> id, bytesDone |-> 0, bytesTotal |-> bytes,
    itemsDone |-> 0, itemsTotal |-> items ]

\* TaskSummary::from(&Task): the human summary of a record.
Summary(t) ==
  [ name |-> t.id, done |-> t.bytesDone + t.itemsDone,
    total |-> t.bytesTotal + t.itemsTotal ]

\* Mutant: the take(limit) is missing.
PaginateAll(tbl, rows) == [k \in 1..Len(tbl) |-> Summary(tbl[k])]

\* Lines 52-53: running.values().take(Self::limit()).map(Into::into).collect()
PaginateOf(tbl, rows) ==
  LET taken == Take(tbl, Limit(rows)) IN
  [k \in 1..Len(taken) |-> Summary(taken[k])]

RECURSIVE SumOf(_, _)
SumOf(tbl, field) ==
  IF tbl = <<>> THEN 0 ELSE Head(tbl)[field] + SumOf(Tail(tbl), field)

\* TasksProgress::default()
DefaultProgress ==
  [ bytesDone |-> 0, bytesTotal |-> 0, itemsDone |-> 0, itemsTotal |-> 0,
    active |-> 0 ]

\* TasksProgress::from(&running)
TasksProgressFrom(tbl) ==
  [ bytesDone |-> SumOf(tbl, "bytesDone"), bytesTotal |-> SumOf(tbl, "bytesTotal"),
    itemsDone |-> SumOf(tbl, "itemsDone"), itemsTotal |-> SumOf(tbl, "itemsTotal"),
    active |-> Len(tbl) ]

\* Mutant: the comparison is missing, every poll publishes.
PumpChangedAlways(old, new) == TRUE

\* Line 36: if last != new
PumpChanged(old, new) == old # new

\* Mutant: the published value is not stored.
PumpLastKept(old, new) == old

\* Line 37: last = new
PumpLast(old, new) == new

\* The table without its k-th record.
Without(tbl, k) == SubSeq(tbl, 1, k - 1) \o SubSeq(tbl, k + 1, Len(tbl))

\* --------------------------------------------------------------- the facade
\* The longest list of targets handed to file_remove and file_open.
MaxTargets == 2

\* Url: a file `name` in the directory `dir`.
Url(dir, name) == [dir |-> dir, name |-> name]

Dirs == {"/tmp", "/x"}

Names == {"a", "b"}

Urls == {Url(d, n) : d \in Dirs, n \in Names}

\* Url::file_name
FileName(u) == u.name

\* Url::join: the entry `name` of the directory dest.
Join(dest, name) == Url(dest, name)

\* The orders in which a HashSet may be iterated.
Orders(S) ==
  {o \in [1..Cardinality(S) -> S] : \A i, j \in 1..Cardinality(S) : i # j => o[i] # o[j]}

\* Mutant: the copy onto itself is skipped whether forced or not.
SameFileAlways(force, u, to) == u = to

\* Line 95: if force && u == &to
SameFile(force, u, to) == force /\ u = to

\* scheduler.file_copy(u, to, force)
SchedCopy(u, to, force) == [fn |-> "file_copy", from |-> u, to |-> to, force |-> force]

\* Lines 93-100: the loop of file_copy over src, iterated in `order`.
FileCopyCalls(order, dest, force) ==
  LET kept == SelectSeq(order, LAMBDA u : ~SameFile(force, u, Join(dest, FileName(u))))
  IN  [k \in 1..Len(kept) |-> SchedCopy(kept[k], Join(dest, FileName(kept[k])), force)]

\* The lists of at most n elements of S.
SeqsUpTo(S, n) == UNION {[1..k -> S] : k \in 0..n}

\* What result.recv().await yields: the text the user confirmed, an error
\* (the input was cancelled), or nothing (the prompt was dropped).
SomeOk(text) == [tag |-> "ok", text |-> text]

SomeErr == [tag |-> "err", text |-> ""]

Dismissed == [tag |-> "none", text |-> ""]

Responses == {SomeOk(t) : t \in {"y", "Y", "n", "yes", ""}} \cup {SomeErr, Dismissed}

\* Mutant: every confirmed text counts as a yes.
AffirmativeAny(result) == result.tag = "ok"

\* Lines 136-139: if let Some(Ok(choice)) = .. { if choice != "y" && choice != "Y" { return; } .. }
Affirmative(result) ==
  /\ result.tag = "ok"
  /\ ~(result.text # "y" /\ result.text # "Y")

\* scheduler.file_delete(u) / scheduler.file_trash(u)
SchedRemove(u, permanently) ==
  [fn |-> IF permanently THEN "file_delete" ELSE "file_trash", url |-> u]

\* Lines 118-124 and 140-146: for u in targets { if permanently { .. } else { .. } }
RemoveCalls(targets, permanently) ==
  [k \in 1..Len(targets) |-> SchedRemove(targets[k], permanently)]

\* The MIME strings of the mappings handed to the thumbnail precachers.
ThumbMimes == {"image/png", "image/jpeg", "text/plain", "video/mp4", "application/pdf"}

\* The URLs the mappings are over.
KeyUrls == {Url("/tmp", "a"), Url("/tmp", "b"), Url("/x", "a")}

\* The mappings url -> mime.
MimeMaps == UNION {[S -> ThumbMimes] : S \in SUBSET KeyUrls}

\* The order of the keys of a BTreeMap<Url, _>.
UrlOrder == << Url("/tmp", "a"), Url("/tmp", "b"), Url("/x", "a"), Url("/x", "b") >>

\* Mutant: the filter lets every kind of media through.
KindIsMedia(mime, kind) == MimeKindNew(mime) \in {"Image", "Video", "PDF"}

\* Lines 188, 201, 214: MimeKind::new(m) == MimeKind::Image / Video / PDF
KindIs(mime, kind) == MimeKindNew(mime) = kind

\* Lines 186-190: mimetype.iter().filter(..).map(|(u, _)| u).collect()
KindTargets(mimetype, kind) ==
  SelectSeq(UrlOrder, LAMBDA u : u \in DOMAIN mimetype /\ KindIs(mimetype[u], kind))

\* Lines 192-194: if !targets.is_empty() { self.scheduler.precache_X(targets); }
PrecacheCalls(fn, targets) ==
  IF targets # <<>> THEN << [fn |-> fn, targets |-> targets] >> ELSE <<>>

\* struct File: the URL, the metadata snapshot (whether it is a directory,
\* and the ChaKind flags), and the link target; the icon slot is left out.
File(url, isDir, kind, linkTo) ==
  [url |-> url, cha |-> [is_dir |-> isDir, kind |-> kind], link_to |-> linkTo]

\* No link target.
NoLink == [dir |-> "", name |-> ""]

\* The listings: every URL of KeyUrls is absent, a plain file or a directory.
Listings ==
  LET shape == [KeyUrls -> {"absent", "file", "dir"}]
      present(sh) == SelectSeq(UrlOrder, LAMBDA u : u \in KeyUrls /\ sh[u] # "absent")
  IN  {[k \in 1..Len(present(sh)) |-> File(present(sh)[k], sh[present(sh)[k]] = "dir", {}, NoLink)] : sh \in shape}

\* SortBy: the sort keys.
SortBys == {"Alphabetical", "Size"}

\* The URLs of a list of files.
UrlsOf(files) == [k \in DOMAIN files |-> files[k].url]

\* Mutant: a directory is wanted whether its size is memoized or not.
SizeWantedAll(f, sizes) == f.cha.is_dir

\* Line 159: |f| f.is_dir() && !targets.sizes.contains_key(&f.url)
SizeWanted(f, sizes) == f.cha.is_dir /\ f.url \notin sizes

\* Lines 152-169: the scheduler calls of precache_size on the listing `items`,
\* sorted by `by`, with the URLs `sizes` memoized.
PrecacheSizeCalls(items, sizes, by) ==
  IF by # "Size"
    THEN <<>>
    ELSE PrecacheCalls("precache_size",
                       UrlsOf(SelectSeq(items, LAMBDA f : SizeWanted(f, sizes))))

\* Line 174: |f| !f.is_dir() && !mimetype.contains_key(&f.url)
MimeWanted(f, mimetype) == ~f.cha.is_dir /\ f.url \notin mimetype

\* Lines 171-183: the scheduler calls of precache_mime on `targets`, with
\* the URLs `mimetype` labelled.
PrecacheMimeCalls(targets, mimetype) ==
  PrecacheCalls("precache_mime",
                UrlsOf(SelectSeq(targets, LAMBDA f : MimeWanted(f, mimetype))))

\* struct Opener: a name and the spread switch.
Opener(name, spread) == [name |-> name, spread |-> spread]

Edit == Opener("edit", FALSE)

View == Opener("view", TRUE)

Openers == {Edit, View}

\* What OPEN.openers(path, mime) yields: None, or Some list of openers.
NoOpeners == [some |-> FALSE, list |-> <<>>]

SomeOpeners(list) == [some |-> TRUE, list |-> list]

Resolutions ==
  {NoOpeners} \cup
  {SomeOpeners(l) : l \in {<<>>, <<View>>, <<Edit, View>>, <<View, Edit>>}}

\* The MIME strings of the targets of file_open.
OpenMimes == {"text/plain", "image/png"}

\* The open rules of the configuration: the openers of every MIME string.
OpenConfigs == [OpenMimes -> Resolutions]

\* The targets of file_open: (path, mime) pairs.
OpenTargets == [path : Names, mime : OpenMimes]

\* Mutant: the last opener of the list is taken.
LastOpener(r) == IF r.some /\ r.list # <<>> THEN SomeOpeners(<<r.list[Len(r.list)]>>) ELSE NoOpeners

\* Line 59: .and_then(|o| o.first().copied())
FirstOpener(r) == IF r.some /\ r.list # <<>> THEN SomeOpeners(<<r.list[1]>>) ELSE NoOpeners

\* scheduler.process_open(opener, args)
ProcessOpen(opener, args) == [fn |-> "process_open", opener |-> opener, args |-> args]

\* Lines 69-78: file_open_with(opener, args)
FileOpenWithCalls(opener, args) ==
  IF opener.spread
    THEN << ProcessOpen(opener, args) >>
    ELSE [k \in 1..Len(args) |-> ProcessOpen(opener, <<args[k]>>)]

\* Lines 57-62: the entry of `opener` in the map: the paths of the targets
\* whose first opener it is, in the order of the targets.
GroupOf(targets, cfg, opener) ==
  LET mine == SelectSeq(targets, LAMBDA t : FirstOpener(cfg[t.mime]) = SomeOpeners(<<opener>>))
  IN  [k \in 1..Len(mine) |-> mine[k].path]

\* Lines 63-65: for (opener, args) in openers { self.file_open_with(opener, &args); }
\* with the keys of the map in `order`.
RECURSIVE FileOpenCalls(_, _, _)
FileOpenCalls(targets, cfg, order) ==
  IF order = <<>>
    THEN <<>>
    ELSE FileOpenWithCalls(order[1], GroupOf(targets, cfg, order[1]))
           \o FileOpenCalls(targets, cfg, Tail(order))

\* The names that start with a dot.
HiddenNames == {".h"}

\* The URLs a File is built for.
FileUrls == Urls \cup {Url("/tmp", n) : n \in HiddenNames}

\* What a Metadata says the entry is.
MetaKinds == {"file", "dir", "symlink"}

\* What fs::metadata(&url), which follows links, comes back with.
FollowedOutcomes == {"file", "dir", "err"}

\* What fs::read_link(&url) comes back with: the target, or an error.
LinkRead(to) == [ok |-> TRUE, target |-> to]

LinkErr == [ok |-> FALSE, target |-> NoLink]

LinkOutcomes == {LinkRead(t) : t \in {Url("/x", "a"), Url("/x", "b")}} \cup {LinkErr}

\* Not evaluated: the URL is no symlink.
NotRead == "n/a"

\* Line 47: fs::metadata(&url).await.unwrap_or(meta)
FollowedMeta(meta, followed) == IF followed = "err" THEN meta ELSE followed

\* Line 48: fs::read_link(&url).await.map(Url::from).ok()
LinkTo(link) == IF link.ok THEN link.target ELSE NoLink

\* Mutant: every symlink is marked LINK, orphan or not.
LinkKindBoth(isLink, meta) ==
  (IF isLink /\ meta = "symlink" THEN {"ORPHAN"} ELSE {}) \cup (IF isLink THEN {"LINK"} ELSE {})

\* Lines 51-55: if is_link && meta.is_symlink() { ORPHAN } else if is_link { LINK }
LinkKind(isLink, meta) ==
  IF isLink /\ meta = "symlink" THEN {"ORPHAN"}
  ELSE IF isLink THEN {"LINK"}
  ELSE {}

\* Lines 57-60 (unix): if url.is_hidden() { ck |= ChaKind::HIDDEN; }
HiddenKind(url) == IF FileName(url) \in HiddenNames THEN {"HIDDEN"} ELSE {}

\* Lines 42-70: File::from_meta(url, meta), where the two reads of a symlink
\* come back with `followed` and `link`.
FromMetaOf(url, meta, followed, link) ==
  LET isLink == meta = "symlink"
      meta2  == IF isLink THEN FollowedMeta(meta, followed) ELSE meta
      linkTo == IF isLink THEN LinkTo(link) ELSE NoLink
  IN  File(url, meta2 = "dir", LinkKind(isLink, meta2) \cup HiddenKind(url), linkTo)

\* ------------------------------------------------------------------- Init
Init ==
  /\ path = DefaultPath
  /\ data = NoneData
  /\ handle = 0
  /\ prods = <<>>
  /\ events = <<>>
  /\ seen = 0
  /\ target = DefaultPath
  /\ lastCall = "new"
  /\ prevCall = "new"
  /\ resetRet = FALSE
  /\ tick = FALSE
  /\ running = <<>>
  /\ nextId = 1
  /\ nMut = 0
  /\ pumpPc = "sleep"
  /\ last = DefaultProgress
  /\ progress = <<>>
  /\ muts = 0
  /\ polled = 0
  /\ page = [rows |-> 0, out |-> <<>>]
  /\ pageTick = FALSE
  /\ fcall = [op |-> "start"]
  /\ sched = <<>>

\* ---------------------------------------------------------------- actions
\* Preview::go(path, mime)
Go(p, m) ==
  /\ Len(prods) < MaxGo
  /\ prods' = Spawn(prods, handle, NewProducer(Len(prods) + 1, p, m))
  /\ handle' = Len(prods) + 1
  /\ target' = p
  /\ prevCall' = lastCall
  /\ lastCall' = "go"
  /\ UNCHANGED << path, data, events, seen, resetRet, tick, tasksVars, facadeVars >>

\* Mutant: reset() also takes the handle and aborts the producer.
ResetAborting ==
  /\ resetRet' = ResetChanged(path)
  /\ path' = DefaultPath
  /\ data' = NoneData
  /\ prods' = AbortTaken(prods, handle)
  /\ handle' = 0
  /\ prevCall' = lastCall
  /\ lastCall' = "reset"
  /\ tick' = ~tick
  /\ UNCHANGED << events, seen, target, tasksVars, facadeVars >>

\* Preview::reset()
Reset ==
  /\ resetRet' = ResetChanged(path)
  /\ path' = DefaultPath
  /\ data' = NoneData
  /\ prevCall' = lastCall
  /\ lastCall' = "reset"
  /\ tick' = ~tick
  /\ UNCHANGED << handle, prods, events, seen, target, tasksVars, facadeVars >>

\* The runtime picks a suspended producer up: a task whose abort was
\* requested is dropped, any other is polled.
Poll(i) ==
  /\ i \in DOMAIN prods
  /\ prods[i].st = "waiting"
  /\ prods' = [prods EXCEPT ![i].st = IF prods[i].abort THEN "cancelled" ELSE "polling"]
  /\ UNCHANGED << path, data, handle, events, seen, target,
                  lastCall, prevCall, resetRet, tick, tasksVars, facadeVars >>

\* A worker runs the polled producer on to its next .await or to its end.
Step(i) ==
  /\ i \in DOMAIN prods
  /\ prods[i].st = "polling"
  /\ \E ok \in BOOLEAN, ready \in BOOLEAN :
       LET r == Resume(prods[i], ok, ready) IN
       /\ prods' = [prods EXCEPT ![i] = r.p]
       /\ events' = events \o r.out
  /\ UNCHANGED << path, data, handle, seen, target,
                  lastCall, prevCall, resetRet, tick, tasksVars, facadeVars >>

\* The consumer of the event bus takes the next event; a Preview event whose
\* path is the current selection is stored in the slot, any other is dropped.
Consume ==
  /\ seen < Len(events)
  /\ seen' = seen + 1
  /\ LET e == events[seen + 1] IN
     IF e.type = "Preview" /\ e.path = target
       THEN path' = e.path /\ data' = e.data
       ELSE UNCHANGED << path, data >>
  /\ UNCHANGED << handle, prods, events, target,
                  lastCall, prevCall, resetRet, tick, tasksVars, facadeVars >>

\* A worker adds a task to the running table.
TaskAdd(bytes, items) ==
  /\ nMut < MaxMut
  /\ running' = Append(running, Task(nextId, bytes, items))
  /\ nextId' = nextId + 1
  /\ nMut' = nMut + 1
  /\ muts' = muts + 1
  /\ UNCHANGED << pumpPc, last, progress, polled, page, pageTick, previewVars, facadeVars >>

\* A worker reports progress of the k-th task: a byte or an item done.
TaskAdvance(k, field) ==
  /\ nMut < MaxMut
  /\ k \in DOMAIN running
  /\ \/ field = "bytesDone" /\ running[k].bytesDone < running[k].bytesTotal
     \/ field = "itemsDone" /\ running[k].itemsDone < running[k].itemsTotal
  /\ running' = [running EXCEPT ![k][field] = @ + 1]
  /\ nMut' = nMut + 1
  /\ muts' = muts + 1
  /\ UNCHANGED << nextId, pumpPc, last, progress, polled, page, pageTick, previewVars, facadeVars >>

\* A worker's completion hook takes the k-th task off the running table.
TaskRemove(k) ==
  /\ nMut < MaxMut
  /\ k \in DOMAIN running
  /\ running' = Without(running, k)
  /\ nMut' = nMut + 1
  /\ muts' = muts + 1
  /\ UNCHANGED << nextId, pumpPc, last, progress, polled, page, pageTick, previewVars, facadeVars >>

\* Line 33: the pump's sleep(500 ms) is over.
PumpWake ==
  /\ pumpPc = "sleep"
  /\ pumpPc' = "poll"
  /\ UNCHANGED << running, nextId, nMut, last, progress, muts, polled, page,
                  pageTick, previewVars, facadeVars >>

\* Mutant: the pump leaves its loop once it has published.
PumpPollExits ==
  /\ pumpPc = "poll"
  /\ LET new == TasksProgressFrom(running) IN
     IF PumpChanged(last, new)
       THEN /\ last' = PumpLast(last, new)
            /\ progress' = Append(progress, new)
            /\ pumpPc' = "exit"
       ELSE /\ UNCHANGED << last, progress >>
            /\ pumpPc' = "sleep"
  /\ polled' = muts
  /\ muts' = 0
  /\ UNCHANGED << running, nextId, nMut, page, pageTick, previewVars, facadeVars >>

\* Lines 35-39: the pump derives the progress under the read lock, and
\* publishes and stores it if it differs from the last one.
PumpPoll ==
  /\ pumpPc = "poll"
  /\ pumpPc' = "sleep"
  /\ LET new == TasksProgressFrom(running) IN
     IF PumpChanged(last, new)
       THEN /\ last' = PumpLast(last, new)
            /\ progress' = Append(progress, new)
       ELSE UNCHANGED << last, progress >>
  /\ polled' = muts
  /\ muts' = 0
  /\ UNCHANGED << running, nextId, nMut, page, pageTick, previewVars, facadeVars >>

\* Tasks::paginate() on a terminal of `rows` rows
Paginate(rows) ==
  /\ page' = [rows |-> rows, out |-> PaginateOf(running, rows)]
  /\ pageTick' = ~pageTick
  /\ UNCHANGED << running, nextId, nMut, pumpPc, last, progress, muts, polled,
                  previewVars, facadeVars >>

\* Tasks::file_copy(src, dest, force)
FileCopy(src, dest, force) ==
  /\ \E order \in Orders(src) : sched' = FileCopyCalls(order, dest, force)
  /\ fcall' = [op |-> "file_copy", src |-> src, dest |-> dest, force |-> force, ret |-> FALSE]
  /\ UNCHANGED << previewVars, tasksVars >>

\* Tasks::file_remove(targets, force, permanently): forced, it enqueues at
\* once; otherwise it spawns the task that shows the prompt and waits for
\* the answer.
FileRemove(targets, force, permanently) ==
  /\ sched' = IF force THEN RemoveCalls(targets, permanently) ELSE <<>>
  /\ fcall' = [op |-> "file_remove", targets |-> targets, force |-> force,
               permanently |-> permanently,
               prompt |-> IF force THEN "none" ELSE "waiting",
               result |-> Dismissed, ret |-> FALSE]
  /\ UNCHANGED << previewVars, tasksVars >>

\* The task spawned by file_remove receives the answer to its prompt.
PromptAnswer(result) ==
  /\ fcall.op = "file_remove"
  /\ fcall.prompt = "waiting"
  /\ sched' = IF Affirmative(result)
                THEN sched \o RemoveCalls(fcall.targets, fcall.permanently)
                ELSE sched
  /\ fcall' = [fcall EXCEPT !.prompt = "answered", !.result = result]
  /\ UNCHANGED << previewVars, tasksVars >>

\* Tasks::precache_image(mimetype)
PrecacheImage(mimetype) ==
  /\ sched' = PrecacheCalls("precache_image", KindTargets(mimetype, "Image"))
  /\ fcall' = [op |-> "precache_image", mimetype |-> mimetype, ret |-> FALSE]
  /\ UNCHANGED << previewVars, tasksVars >>

\* Tasks::precache_video(mimetype)
PrecacheVideo(mimetype) ==
  /\ sched' = PrecacheCalls("precache_video", KindTargets(mimetype, "Video"))
  /\ fcall' = [op |-> "precache_video", mimetype |-> mimetype, ret |-> FALSE]
  /\ UNCHANGED << previewVars, tasksVars >>

\* Tasks::precache_pdf(mimetype)
PrecachePdf(mimetype) ==
  /\ sched' = PrecacheCalls("precache_pdf", KindTargets(mimetype, "PDF"))
  /\ fcall' = [op |-> "precache_pdf", mimetype |-> mimetype, ret |-> FALSE]
  /\ UNCHANGED << previewVars, tasksVars >>

\* Tasks::precache_size(targets): targets.items, targets.sizes and
\* targets.sorter().by are the inputs.
PrecacheSize(items, sizes, by) ==
  /\ sched' = PrecacheSizeCalls(items, sizes, by)
  /\ fcall' = [op |-> "precache_size", items |-> items, memo |-> sizes, by |-> by,
               ret |-> FALSE]
  /\ UNCHANGED << previewVars, tasksVars >>

\* Tasks::precache_mime(targets, mimetype): of mimetype only the keys are read.
PrecacheMime(targets, mimetype) ==
  /\ sched' = PrecacheMimeCalls(targets, mimetype)
  /\ fcall' = [op |-> "precache_mime", items |-> targets, memo |-> mimetype,
               ret |-> FALSE]
  /\ UNCHANGED << previewVars, tasksVars >>

\* Tasks::file_open(targets), under the open rules cfg; the order of the
\* keys of the map is the order of Opener, which is any.
FileOpen(targets, cfg) ==
  /\ \E order \in Orders({o \in Openers : GroupOf(targets, cfg, o) # <<>>}) :
       sched' = FileOpenCalls(targets, cfg, order)
  /\ fcall' = [op |-> "file_open", targets |-> targets, cfg |-> cfg, ret |-> FALSE]
  /\ UNCHANGED << previewVars, tasksVars >>

\* File::from_meta(url, meta): a symlink is followed and read, anything
\* else is taken as it is.
FromMeta(url, meta, followed, link) ==
  /\ fcall' = [op |-> "from_meta", url |-> url, meta |-> meta,
               followed |-> IF meta = "symlink" THEN followed ELSE NotRead,
               link |-> IF meta = "symlink" THEN link ELSE LinkErr,
               file |-> FromMetaOf(url, meta, followed, link)]
  /\ sched' = <<>>
  /\ UNCHANGED << previewVars, tasksVars >>

\* ---------------------------------------------------------- specifications
\* The engine and its producers: go() and the runtime's steps.
NextEngine ==
  \/ \E p \in Paths, m \in Mimes : Go(p, m)
  \/ \E i \in DOMAIN prods : Poll(i)
  \/ \E i \in DOMAIN prods : Step(i)

\* The engine with reset() and the consumer of its events.
NextPreview ==
  \/ \E p \in Paths, m \in Mimes : Go(p, m)
  \/ Reset
  \/ \E i \in DOMAIN prods : Poll(i)
  \/ \E i \in DOMAIN prods : Step(i)
  \/ Consume

\* The running table, its workers, the progress pump and paginate().
NextTasks ==
  \/ \E bytes \in 1..2 : TaskAdd(bytes, 1)
  \/ \E k \in DOMAIN running, field \in {"bytesDone", "itemsDone"} : TaskAdvance(k, field)
  \/ \E k \in DOMAIN running : TaskRemove(k)
  \/ PumpWake
  \/ PumpPoll
  \/ \E rows \in 0..MaxRows : Paginate(rows)

\* The calls on the facade, each on inputs of its own.
NextFacade ==
  \/ \E src \in SUBSET Urls, dest \in Dirs, force \in BOOLEAN : FileCopy(src, dest, force)
  \/ \E targets \in SeqsUpTo(Urls, MaxTargets), force, permanently \in BOOLEAN :
       FileRemove(targets, force, permanently)
  \/ \E result \in Responses : PromptAnswer(result)

\* The calls of file_open, each on targets and open rules of its own.
NextOpen ==
  \E targets \in SeqsUpTo(OpenTargets, MaxTargets), cfg \in OpenConfigs : FileOpen(targets, cfg)

\* The precache calls on the facade, each on inputs of its own.
NextPrecache ==
  \/ \E mimetype \in MimeMaps : PrecacheImage(mimetype)
  \/ \E mimetype \in MimeMaps : PrecacheVideo(mimetype)
  \/ \E mimetype \in MimeMaps : PrecachePdf(mimetype)
  \/ \E items \in Listings, sizes \in SUBSET KeyUrls, by \in SortBys :
       PrecacheSize(items, sizes, by)
  \/ \E targets \in Listings, mimetype \in SUBSET KeyUrls : PrecacheMime(targets, mimetype)
  \/ \E url \in FileUrls, meta \in MetaKinds, followed \in FollowedOutcomes,
          link \in LinkOutcomes :
       FromMeta(url, meta, followed, link)

Next == NextPreview \/ NextTasks \/ NextFacade \/ NextOpen \/ NextPrecache

Spec == Init /\ [][Next]_vars

\* reset() and the consumer touch neither the handle, the producers nor the
\* event bus, and the preview engine and the tasks share no state: each
\* part is checked on its own.
SpecEngine == Init /\ [][NextEngine]_vars

SpecPreview == Init /\ [][NextPreview]_vars

SpecTasks == Init /\ [][NextTasks]_vars

SpecFacade == Init /\ [][NextFacade]_vars

SpecOpen == Init /\ [][NextOpen]_vars

SpecPrecache == Init /\ [][NextPrecache]_vars

\* The pump's task is scheduled whenever it can run: its sleep ends, and
\* its poll is run.
FairTasks ==
  /\ SpecTasks
  /\ WF_vars(PumpWake)
  /\ WF_vars(PumpPoll)

\* The runtime runs every task that is ready to run, and every awaited
\* operation comes back.
FairEngine ==
  /\ SpecEngine
  /\ \A i \in 1..MaxGo : WF_vars(Poll(i)) /\ WF_vars(Step(i))

\* ------------------------------------------------------------- the claims
\* The events producer i has emitted, in order.
EventsOf(i) == SelectSeq(events, LAMBDA e : e.prod = i)

PreviewsOf(i) == SelectSeq(events, LAMBDA e : e.prod = i /\ e.type = "Preview")

InFlight(p) == p.st \in {"waiting", "polling"}

KindOf(p) == MimeKindNew(p.mime)

\* C1: a producer whose go() is not followed by another go() before it
\* completes has emitted no Preview event while it runs and exactly one,
\* carrying the path of its go(), once it has completed; and it does
\* complete.
C1_ExactlyOnePreview ==
  /\ [](\A i \in DOMAIN prods :
          ~prods[i].abort =>
            /\ prods[i].st # "cancelled"
            /\ InFlight(prods[i]) => PreviewsOf(i) = <<>>
            /\ prods[i].st = "done" =>
                 /\ Len(PreviewsOf(i)) = 1
                 /\ PreviewsOf(i)[1].path = prods[i].path)
  /\ \A i \in 1..MaxGo :
       (i \in DOMAIN prods /\ ~prods[i].abort)
         ~> (i \in DOMAIN prods /\ (prods[i].abort \/ Len(PreviewsOf(i)) = 1))

\* C1 witness: two go() calls, the second after the first producer had
\* completed; both producers emitted their Preview event.
C1_Witness ==
  /\ Len(prods) = 2
  /\ \A i \in 1..2 : prods[i].st = "done" /\ ~prods[i].abort
  /\ prods[1].path # prods[2].path
  /\ Len(events) >= 2

\* A producer that will still run code: it is being polled, or it is
\* suspended and no abort was requested (the runtime drops a suspended
\* producer whose abort was requested without polling it again).
StillRuns(p) == p.st = "polling" \/ (p.st = "waiting" /\ ~p.abort)

\* C2 as stated: at most one producer has not completed, a replaced
\* producer is no longer in flight.
C2_Original ==
  Cardinality({i \in DOMAIN prods : StillRuns(prods[i])}) <= 1

\* C2 amended: at most one producer is in flight without an abort request,
\* and it is the recorded one; the slot records the last producer launched,
\* and every replaced producer has completed, was dropped, or carries the
\* abort request.
C2_AtMostOneLive ==
  /\ handle = Len(prods)
  /\ \A i \in DOMAIN prods :
       i # handle => (prods[i].abort \/ prods[i].st = "done")
  /\ \A i \in DOMAIN prods :
       prods[i].st = "cancelled" => prods[i].abort
  /\ Cardinality({i \in DOMAIN prods : InFlight(prods[i]) /\ ~prods[i].abort}) <= 1

\* C2 witness: a replaced producer that is still being polled.
C2_Witness ==
  /\ Len(prods) = 2
  /\ prods[1].abort /\ prods[1].st = "polling"
  /\ InFlight(prods[2])

\* C3 as stated: a producer dropped after an abort has emitted
\* Preview(path, None).
C3_Original ==
  \A i \in DOMAIN prods :
    prods[i].st = "cancelled" =>
      /\ Len(PreviewsOf(i)) = 1
      /\ PreviewsOf(i)[1].data = NoneData

\* C3 amended: a producer emits at most one Preview event: exactly one when
\* it runs to its end (aborted in the middle of its last poll or not), and
\* none at all when the runtime drops it after the abort.
C3_AtMostOnePreview ==
  \A i \in DOMAIN prods :
    /\ Len(PreviewsOf(i)) <= 1
    /\ prods[i].st = "done" <=> Len(PreviewsOf(i)) = 1
    /\ prods[i].st = "cancelled" => EventsOf(i) = <<>>

\* C3 witness: one producer dropped without an event, another that was
\* aborted during its last poll and emitted its event.
C3_Witness ==
  \E i, j \in DOMAIN prods :
    /\ prods[i].st = "cancelled" /\ EventsOf(i) = <<>>
    /\ prods[j].st = "done" /\ Len(PreviewsOf(j)) = 1

\* C5: the Preview event of a producer that failed carries None, a producer
\* of kind Others always fails, and the bus holds nothing but Preview and
\* Files events.
C5_FailureIsNone ==
  /\ \A k \in DOMAIN events :
       /\ events[k].type \in {"Preview", "Files"}
       /\ (events[k].type = "Preview" /\ prods[events[k].prod].res = "err")
            => events[k].data = NoneData
  /\ \A i \in DOMAIN prods :
       /\ (prods[i].st = "done" /\ KindOf(prods[i]) = "Others") => prods[i].res = "err"
       /\ prods[i].res = "err" => PreviewsOf(i) = <<PreviewEvent(i, prods[i].path, NoneData)>>

\* C5 witness: a thumbnailer failure and an unsupported MIME type, each
\* published as None.
C5_Witness ==
  /\ Len(prods) = 2
  /\ KindOf(prods[1]) = "Video" /\ prods[1].res = "err"
  /\ KindOf(prods[2]) = "Others" /\ prods[2].res = "err"
  /\ Len(events) = 2

\* What the producer of p can compute.
ComputedBy(p) ==
  CASE KindOf(p) = "Dir"   -> {FolderData}
    [] KindOf(p) \in {"JSON", "Text", "Archive"} -> {TextData(Loc(p.path, 0))}
    [] KindOf(p) = "Image" -> {ImageData(Loc(p.path, d)) : d \in 0..1}
    [] KindOf(p) = "Video" -> {ImageData(Loc(p.path, d)) : d \in 1..2}
    [] OTHER               -> {}

\* C6: the producer of the last go() eventually emits its Preview event,
\* and every Preview event carries the path of its own go() and either None
\* or data its own producer computed.
C6_LastGoPublished ==
  /\ \A i \in 1..MaxGo :
       (handle = i) ~> (handle # i \/ Len(PreviewsOf(i)) = 1)
  /\ [](\A k \in DOMAIN events :
          events[k].type = "Preview" =>
            LET p == prods[events[k].prod] IN
            /\ events[k].path = p.path
            /\ events[k].data \in {NoneData} \cup ComputedBy(p))

\* C6 witness: go(a, m1), go(b, m2); both Preview events were emitted, a's
\* after b's.
C6_Witness ==
  /\ Len(prods) = 2
  /\ prods[1].path # prods[2].path
  /\ prods[1].abort
  /\ Len(events) = 2
  /\ events[1].prod = 2 /\ events[1].data.tag = "Text"
  /\ events[2].prod = 1 /\ events[2].data.tag = "Text"

\* C7: a completed producer of kind Dir has emitted one Files event and then
\* Preview(path, Folder), the Files event being Read when the listing
\* succeeded and IOErr when it failed; no other producer emits Files.
C7_FolderEvents ==
  /\ \A i \in DOMAIN prods :
       (KindOf(prods[i]) = "Dir" /\ prods[i].st = "done") =>
         /\ prods[i].listing \in {"ok", "err"}
         /\ EventsOf(i) =
              << FilesEvent(i, IF prods[i].listing = "ok"
                                 THEN FilesOpRead(prods[i].path)
                                 ELSE FilesOpIOErr(prods[i].path)),
                 PreviewEvent(i, prods[i].path, FolderData) >>
  /\ \A i \in DOMAIN prods :
       Len(SelectSeq(EventsOf(i), LAMBDA e : e.type = "Files")) <= 1
  /\ \A k \in DOMAIN events :
       events[k].type = "Files" => KindOf(prods[events[k].prod]) = "Dir"

\* C7 witness: one listing that succeeded and one that failed.
C7_Witness ==
  /\ Len(prods) = 2
  /\ prods[1].listing = "ok" /\ prods[2].listing = "err"
  /\ prods[1].st = "done" /\ prods[2].st = "done"
  /\ Len(events) = 4

\* A step that is a reset() call.
ResetStep == tick' # tick

\* C4 as stated: reset() on a fresh engine returns false, reset() after a
\* go() returns true, and the reset() after a reset() returns false.
C4_Original ==
  lastCall = "reset" =>
    /\ prevCall = "new" => ~resetRet
    /\ prevCall = "go" => resetRet
    /\ prevCall = "reset" => ~resetRet

\* C4 amended: reset() returns true exactly when the slot's path is not the
\* default path at the call, and leaves the default path and None in the
\* slot; go() leaves the path as it is.  So reset() on a fresh engine
\* returns false, reset() after go() returns true only if the path was set
\* by then, and a reset() that finds the path a reset() left returns false.
C4_ResetReportsChange ==
  /\ [][ResetStep =>
          /\ resetRet' = (path # DefaultPath)
          /\ path' = DefaultPath
          /\ data' = NoneData]_vars
  /\ [][lastCall' = "go" /\ prods' # prods => path' = path /\ data' = data]_vars
  /\ []((lastCall = "reset" /\ prevCall = "new") => ~resetRet)

\* C4 witness: go(), its Preview event stored, reset() returned true, and a
\* second reset() would return false.
C4_Witness ==
  /\ lastCall = "reset" /\ prevCall = "go"
  /\ resetRet
  /\ path = DefaultPath

\* A step that is a poll of the pump.
PollStep == pumpPc = "poll" /\ pumpPc' = "sleep"

\* C8: a poll emits a Progress event exactly when the progress derived from
\* the running table differs from the last published value; the event
\* carries the derived value, which becomes the last published value.  The
\* last published value is the default one until the first event, and no two
\* consecutive events are equal.
C8_EmitsOnChange ==
  /\ [][PollStep =>
          LET new == TasksProgressFrom(running) IN
          IF last # new
            THEN progress' = Append(progress, new) /\ last' = new
            ELSE progress' = progress /\ last' = last]_vars
  /\ [](last = IF progress = <<>> THEN DefaultProgress ELSE progress[Len(progress)])
  /\ [](\A k \in 1..(Len(progress) - 1) : progress[k] # progress[k + 1])
  /\ [](progress # <<>> => progress[1] # DefaultProgress)

\* C8 witness: two events were emitted, and the pump polled again without
\* emitting a third.
C8_Witness ==
  /\ Len(progress) = 2
  /\ pumpPc = "sleep"
  /\ polled = 0
  /\ last = TasksProgressFrom(running)

\* C9: the Progress events grow by at most one event per step, only at a
\* poll, and only at a poll that follows at least one mutation of the
\* running table.
C9_Coalesces ==
  [][/\ Len(progress') <= Len(progress) + 1
     /\ progress' # progress => (PollStep /\ muts > 0)
     /\ (PollStep /\ muts = 0) => progress' = progress]_vars

\* C9 witness: three mutations between two polls, one event for them.
C9_Witness ==
  /\ polled = 3
  /\ Len(progress) = 1
  /\ pumpPc = "sleep"

\* A step that is a paginate() call.
PaginateStep == pageTick' # pageTick

Min(a, b) == IF a < b THEN a ELSE b

\* C10: paginate() returns min(limit(), running.len()) summaries, those of
\* the first records of the running table in insertion order; limit() is
\* the share of the rows less the padding, 0 when that is negative.
C10_Paginate ==
  [][PaginateStep =>
       LET rows == page'.rows
           n    == Min(Limit(rows), Len(running))
           cut  == (rows * TASKS_PERCENT) \div 100 - TASKS_PADDING
       IN  /\ Limit(rows) = IF cut < 0 THEN 0 ELSE cut
           /\ Len(page'.out) = n
           /\ \A k \in 1..n : page'.out[k] = Summary(running[k])
           /\ \A k \in 1..(Len(running) - 1) : running[k].id < running[k + 1].id]_vars

\* C10 witness: a page of two summaries cut out of a table of three.
C10_Witness ==
  /\ Len(running) = 3
  /\ Len(page.out) = 2
  /\ Limit(page.rows) = 2

\* The sources of a file_copy call that lie in the destination already.
CopiedOntoSelf(c) == {u \in c.src : u = Join(c.dest, FileName(u))}

\* C11 as stated: a forced copy of a single source onto itself enqueues
\* nothing, every other call enqueues one task per source.
C11_Original ==
  fcall.op = "file_copy" =>
    IF fcall.force /\ Cardinality(fcall.src) = 1 /\ CopiedOntoSelf(fcall) = fcall.src
      THEN Len(sched) = 0
      ELSE Len(sched) = Cardinality(fcall.src)

\* C11 amended: file_copy enqueues one copy task, to dest.join(name), for
\* every source except, when forced, the sources that are that destination
\* already: |S| tasks when not forced, |S| less the sources lying in dest
\* when forced.
C11_CopyPerSource ==
  fcall.op = "file_copy" =>
    LET skipped == IF fcall.force THEN CopiedOntoSelf(fcall) ELSE {} IN
    /\ Len(sched) = Cardinality(fcall.src) - Cardinality(skipped)
    /\ {sched[k] : k \in DOMAIN sched} =
         {SchedCopy(u, Join(fcall.dest, FileName(u)), fcall.force) : u \in fcall.src \ skipped}
    /\ ~fcall.ret

\* C11 witness: a forced copy of two sources, one of them in the
\* destination already, enqueues one task.
C11_Witness ==
  /\ fcall.op = "file_copy"
  /\ fcall.force
  /\ Cardinality(fcall.src) = 2
  /\ Cardinality(CopiedOntoSelf(fcall)) = 1
  /\ Len(sched) = 1

\* The tasks a removal of the targets enqueues: one per target, all deletes
\* or all trashes.
OnePerTarget(c) ==
  /\ Len(sched) = Len(c.targets)
  /\ \A k \in DOMAIN sched :
       /\ sched[k].url = c.targets[k]
       /\ sched[k].fn = (IF c.permanently THEN "file_delete" ELSE "file_trash")

\* C12: an unforced file_remove enqueues nothing before the answer to its
\* prompt, one delete (permanently) or one trash per target on the answer
\* "y" or "Y", and nothing on any other answer, an error or a dismissal; a
\* forced one enqueues one such task per target without a prompt.
C12_RemovePrompt ==
  fcall.op = "file_remove" =>
    /\ fcall.force => fcall.prompt = "none" /\ OnePerTarget(fcall)
    /\ ~fcall.force /\ fcall.prompt = "waiting" => sched = <<>>
    /\ ~fcall.force /\ fcall.prompt # "waiting" =>
         /\ fcall.prompt = "answered"
         /\ IF fcall.result \in {SomeOk("y"), SomeOk("Y")}
              THEN OnePerTarget(fcall)
              ELSE sched = <<>>
    /\ ~fcall.ret

\* C12 witness: the user answered "Y" to the prompt of an unforced permanent
\* removal of two targets, and two deletes were enqueued.
C12_Witness ==
  /\ fcall.op = "file_remove"
  /\ ~fcall.force
  /\ fcall.permanently
  /\ fcall.prompt = "answered"
  /\ fcall.result = SomeOk("Y")
  /\ Len(fcall.targets) = 2
  /\ Len(sched) = 2

\* The kind of media each thumbnail precacher is for.
ThumbKind ==
  [precache_image |-> "Image", precache_video |-> "Video", precache_pdf |-> "PDF"]

\* The elements of a list.
Range(q) == {q[k] : k \in DOMAIN q}

\* C13: precache_image, precache_video and precache_pdf hand the scheduler,
\* in one call, exactly the URLs of the mapping whose MIME string classifies
\* to Image, Video or PDF respectively, and make no call when there is none.
C13_ThumbFilter ==
  fcall.op \in DOMAIN ThumbKind =>
    LET want == {u \in DOMAIN fcall.mimetype :
                   MimeKindNew(fcall.mimetype[u]) = ThumbKind[fcall.op]} IN
    /\ want = {} => sched = <<>>
    /\ want # {} =>
         /\ Len(sched) = 1
         /\ sched[1].fn = fcall.op
         /\ Range(sched[1].targets) = want
         /\ Len(sched[1].targets) = Cardinality(want)
    /\ ~fcall.ret

\* C13 witness: precache_image on { /tmp/a: image/png, /tmp/b: text/plain,
\* /x/a: image/jpeg } enqueued /tmp/a and /x/a.
C13_Witness ==
  /\ fcall.op = "precache_image"
  /\ DOMAIN fcall.mimetype = {Url("/tmp", "a"), Url("/tmp", "b"), Url("/x", "a")}
  /\ fcall.mimetype[Url("/tmp", "a")] = "image/png"
  /\ fcall.mimetype[Url("/tmp", "b")] = "text/plain"
  /\ fcall.mimetype[Url("/x", "a")] = "image/jpeg"
  /\ Len(sched) = 1
  /\ Range(sched[1].targets) = {Url("/tmp", "a"), Url("/x", "a")}

\* The URLs handed to the scheduler by the call.
Enqueued == UNION {Range(sched[k].targets) : k \in DOMAIN sched}

\* The files that could be added to the input of the call with their size,
\* or MIME label, memoized already.
Memoized(c) == {File(u, d, {}, NoLink) : u \in c.memo, d \in BOOLEAN}

\* C14: precache_size enqueues the directories of the input without a
\* memoized size, in one call, and nothing unless the sort key is size;
\* precache_mime enqueues the non-directories without a memoized MIME label;
\* and adding a memoized file to the input of either leaves the calls as
\* they are.
C14_PrecacheFilters ==
  /\ fcall.op = "precache_size" =>
       /\ fcall.by # "Size" => sched = <<>>
       /\ fcall.by = "Size" =>
            Enqueued = {f.url : f \in {g \in Range(fcall.items) :
                                         g.cha.is_dir /\ g.url \notin fcall.memo}}
       /\ Len(sched) <= 1
       /\ \A k \in DOMAIN sched : sched[k].fn = "precache_size" /\ sched[k].targets # <<>>
       /\ \A f \in Memoized(fcall) :
            PrecacheSizeCalls(Append(fcall.items, f), fcall.memo, fcall.by) = sched
  /\ fcall.op = "precache_mime" =>
       /\ Enqueued = {f.url : f \in {g \in Range(fcall.items) :
                                       ~g.cha.is_dir /\ g.url \notin fcall.memo}}
       /\ Len(sched) <= 1
       /\ \A k \in DOMAIN sched : sched[k].fn = "precache_mime" /\ sched[k].targets # <<>>
       /\ \A f \in Memoized(fcall) :
            PrecacheMimeCalls(Append(fcall.items, f), fcall.memo) = sched

\* C14 witness: precache_size, sorted by size, on a listing of a directory
\* with a memoized size, one without and a plain file enqueued the one
\* directory.
C14_Witness ==
  /\ fcall.op = "precache_size"
  /\ fcall.by = "Size"
  /\ Len(fcall.items) = 3
  /\ \E i, j, k \in DOMAIN fcall.items :
       /\ fcall.items[i].cha.is_dir /\ fcall.items[i].url \in fcall.memo
       /\ fcall.items[j].cha.is_dir /\ fcall.items[j].url \notin fcall.memo
       /\ ~fcall.items[k].cha.is_dir
       /\ Enqueued = {fcall.items[j].url}

\* The paths of the targets of the call whose first resolved opener is o, in
\* the order of the targets.
PathsFor(c, o) ==
  LET mine == SelectSeq(c.targets, LAMBDA t : /\ c.cfg[t.mime].some
                                              /\ c.cfg[t.mime].list # <<>>
                                              /\ c.cfg[t.mime].list[1] = o)
  IN  [k \in 1..Len(mine) |-> mine[k].path]

\* C15: file_open invokes every opener that is the first resolved for some
\* target once with all of its targets' paths when it is spread, and once
\* per such path with that path alone otherwise; it invokes nothing else.
C15_OpenGroups ==
  fcall.op = "file_open" =>
    /\ \A k \in DOMAIN sched : sched[k].fn = "process_open" /\ sched[k].opener \in Openers
    /\ \A o \in Openers :
         LET paths == PathsFor(fcall, o)
             calls == SelectSeq(sched, LAMBDA c : c.opener = o)
         IN  IF o.spread /\ paths # <<>>
               THEN calls = << ProcessOpen(o, paths) >>
               ELSE calls = [k \in 1..Len(paths) |-> ProcessOpen(o, <<paths[k]>>)]
    /\ ~fcall.ret

\* C15 witness: two targets resolved to the same spread opener first, and
\* the opener was invoked once with both paths.
C15_Witness ==
  /\ fcall.op = "file_open"
  /\ Len(fcall.targets) = 2
  /\ Len(PathsFor(fcall, View)) = 2
  /\ \E t \in Range(fcall.targets) : Len(fcall.cfg[t.mime].list) = 2
  /\ Len(sched) = 1
  /\ Len(sched[1].args) = 2

\* The flags of a File built from a symlink or not: ORPHAN exactly for a
\* symlink that could not be followed, LINK exactly for one that could.
LinkFlags(c) ==
  /\ "ORPHAN" \in c.file.cha.kind <=> (c.meta = "symlink" /\ c.followed = "err")
  /\ "LINK" \in c.file.cha.kind <=> (c.meta = "symlink" /\ c.followed \in {"file", "dir"})
  /\ ~({"ORPHAN", "LINK"} \subseteq c.file.cha.kind)
  /\ c.meta # "symlink" => c.file.cha.kind \cap {"ORPHAN", "LINK"} = {}

\* C16 as stated: the flags are as above, and link_to is present exactly
\* when the URL is a symlink and its target resolves.
C16_Original ==
  fcall.op = "from_meta" =>
    /\ LinkFlags(fcall)
    /\ fcall.file.link_to # NoLink <=>
         (fcall.meta = "symlink" /\ fcall.followed \in {"file", "dir"})

\* C16 amended: the flags are as above, and link_to is present exactly when
\* the URL is a symlink and the link itself could be read, whether its
\* target resolves or not; it is then what was read.
C16_LinkFlagsAndTarget ==
  fcall.op = "from_meta" =>
    /\ LinkFlags(fcall)
    /\ fcall.file.link_to # NoLink <=> (fcall.meta = "symlink" /\ fcall.link.ok)
    /\ fcall.file.link_to # NoLink => fcall.file.link_to = fcall.link.target
    /\ fcall.file.url = fcall.url

\* C16 witness: a symlink that could be read but not followed is an ORPHAN
\* with a link target.
C16_Witness ==
  /\ fcall.op = "from_meta"
  /\ fcall.meta = "symlink"
  /\ fcall.followed = "err"
  /\ fcall.link.ok
  /\ "ORPHAN" \in fcall.file.cha.kind
  /\ fcall.file.link_to = fcall.link.target

\* A step that is a go() call.
GoStep == Len(prods') = Len(prods) + 1

\* C17: a go() requests the abort of the producer the slot records, and of
\* no other, before it spawns: the producer it launches starts with no
\* abort requested, and the slot then records that producer alone.
C17_AbortBeforeSpawn ==
  [][GoStep =>
       LET new == Len(prods') IN
       /\ ~prods'[new].abort
       /\ prods'[new].st = "waiting"
       /\ handle' = new
       /\ handle # new
       /\ handle # 0 /\ InFlight(prods[handle]) =>
            /\ prods'[handle].abort
            /\ prods'[handle].st = prods[handle].st
       /\ \A i \in DOMAIN prods : i # handle \/ ~InFlight(prods[i]) => prods'[i] = prods[i]
    ]_vars

\* C17 witness: the second go() has just requested the abort of the first
\* producer, which is still in flight, and launched the second.
C17_Witness ==
  /\ lastCall = "go"
  /\ Len(prods) = 2
  /\ handle = 2
  /\ InFlight(prods[1]) /\ prods[1].abort
  /\ prods[2].pc = "start" /\ ~prods[2].abort

\* The Preview events on the bus.
AllPreviews == SelectSeq(events, LAMBDA e : e.type = "Preview")

\* Producer i completes in this step.
Completes(i) == prods[i].st # "done" /\ prods'[i].st = "done"

\* C18: there are never more Preview events than go() calls, no producer
\* has emitted more than one, every Preview event carries the path of the
\* go() that launched its producer; and a Preview event is put on the bus
\* exactly by the step in which its producer completes, as the last event
\* of the bus, so that Preview events are in the order of completion.
C18_PreviewOrder ==
  /\ [](/\ Len(AllPreviews) <= Len(prods)
        /\ \A i \in DOMAIN prods : Len(PreviewsOf(i)) <= 1
        /\ \A k \in DOMAIN events :
             events[k].type = "Preview" =>
               /\ events[k].prod \in DOMAIN prods
               /\ events[k].path = prods[events[k].prod].path)
  /\ [][\A i \in DOMAIN prods :
          /\ Completes(i) =>
               /\ Len(events') > Len(events)
               /\ events'[Len(events')].type = "Preview"
               /\ events'[Len(events')].prod = i
               /\ SelectSeq(events', LAMBDA e : e.type = "Preview") =
                    Append(AllPreviews, events'[Len(events')])
          /\ Len(SelectSeq(events', LAMBDA e : e.type = "Preview" /\ e.prod = i))
               > Len(PreviewsOf(i)) => Completes(i)
      ]_vars

\* C18 witness: the producer launched second completed first, and the two
\* Preview events are on the bus in that order, each with its own path.
C18_Witness ==
  /\ Len(prods) = 2
  /\ prods[1].path # prods[2].path
  /\ Len(AllPreviews) = 2
  /\ AllPreviews[1].prod = 2 /\ AllPreviews[1].path = prods[2].path
  /\ AllPreviews[2].prod = 1 /\ AllPreviews[2].path = prods[1].path

\* A step of the consumer of the event bus.
ConsumeStep == seen' # seen

\* C19: reset() leaves the recorded handle, the producers and the event bus
\* as they are, so the producer of the earlier go() runs on unaborted and
\* can still publish; go() leaves the slot's path and data as they are, and
\* these change at a reset() or at a step of the consumer only.
C19_Frames ==
  [][/\ ResetStep => handle' = handle /\ prods' = prods /\ events' = events
     /\ GoStep => path' = path /\ data' = data
     /\ path' # path \/ data' # data => ResetStep \/ ConsumeStep
    ]_vars

\* C19 witness: after a reset() the slot still records the producer of the
\* earlier go(), which is being polled, has no abort requested and has not
\* published yet.
C19_Witness ==
  /\ lastCall = "reset" /\ prevCall = "go"
  /\ handle # 0
  /\ prods[handle].st = "polling"
  /\ ~prods[handle].abort
  /\ events = <<>>
  /\ path = DefaultPath

\* C20: the pump is always either asleep or about to poll and polls again
\* and again; once the running table is no longer mutated, the last
\* published value comes to equal the progress derived from the table and
\* stays so; while they are equal and the table is left alone no Progress
\* event is emitted; and a poll that finds the table changed and changed
\* back, so that the derived progress is the last published one, emits
\* nothing.
C20_PumpConverges ==
  /\ [](pumpPc \in {"sleep", "poll"})
  /\ []<><<PumpPoll>>_vars
  /\ <>[](last = TasksProgressFrom(running))
  /\ [][/\ last = TasksProgressFrom(running) /\ running' = running =>
            progress' = progress /\ last' = last
        /\ PollStep /\ muts > 0 /\ TasksProgressFrom(running) = last =>
            progress' = progress
       ]_vars

\* C20 witness: a task was added to the table and taken off again between
\* two polls, and the poll after them published nothing.
C20_Witness ==
  /\ pumpPc = "sleep"
  /\ polled = 2
  /\ running = <<>>
  /\ nMut = 2
  /\ progress = <<>>

====
